---- MODULE Spec2Model ----
(***************************************************************************)
(* Melaleuca-Mirror backend: the storage-to-Firestore reconciliation sweep *)
(* (src/src/app/api/sync-sessions/route.ts, POST and GET) and the          *)
(* generation handler (src/src/lib/firebaseAdmin.ts, POST).                *)
(*                                                                         *)
(* Strings the code takes apart (object names, session identifiers) are    *)
(* sequences of one-character strings, so that the regular expressions,    *)
(* startsWith, split and parseInt are computed character by character.     *)
(* An optional value (undefined / null in the code) is a sequence of       *)
(* length 0 or 1.                                                          *)
(***************************************************************************)
EXTENDS Integers, Sequences, FiniteSets, TLC

VARIABLES now, files, sessions, generations, bucket, served, sweep, dry, gen

vars == <<now, files, sessions, generations, bucket, served, sweep, dry, gen>>

(***************************************************************************)
(* Bounds of the model.                                                    *)
(***************************************************************************)
\* Date.now() returns the values 1..MaxNow.
MaxNow == 2
\* A storage listing holds at most MaxFiles objects.
MaxFiles == 3
\* Requests served one after the other in SpecSeq.
MaxRequests == 2

(***************************************************************************)
(* The clock: now is the value Date.now() returned last.  A call returns   *)
(* that value or a later one.                                              *)
(***************************************************************************)
DateNow(t) == t \in now..MaxNow /\ now' = t

(***************************************************************************)
(* Optional values.                                                        *)
(***************************************************************************)
Undefined == <<>>
Some(v) == <<v>>
IsSome(o) == Len(o) > 0
Val(o) == o[1]

(***************************************************************************)
(* String helpers (JavaScript String methods on character sequences).      *)
(***************************************************************************)
Digits == {"0", "1", "2", "3", "4", "5", "6", "7", "8", "9"}

DigitVal(c) ==
    CASE c = "0" -> 0 [] c = "1" -> 1 [] c = "2" -> 2 [] c = "3" -> 3
      [] c = "4" -> 4 [] c = "5" -> 5 [] c = "6" -> 6 [] c = "7" -> 7
      [] c = "8" -> 8 [] c = "9" -> 9

\* s.startsWith(pre)
StartsWith(s, pre) ==
    /\ Len(s) >= Len(pre)
    /\ SubSeq(s, 1, Len(pre)) = pre

\* s.endsWith(suf)
EndsWith(s, suf) ==
    /\ Len(s) >= Len(suf)
    /\ SubSeq(s, Len(s) - Len(suf) + 1, Len(s)) = suf

\* s.includes(sub)
Includes(s, sub) ==
    \E i \in 1..(Len(s) - Len(sub) + 1) : SubSeq(s, i, i + Len(sub) - 1) = sub

\* s.split('/').pop(): what follows the last '/', the whole string without one.
LastSegment(s) ==
    LET slashes == {i \in 1..Len(s) : s[i] = "/"}
    IN  IF slashes = {} THEN s
        ELSE LET last == CHOOSE i \in slashes : \A j \in slashes : j <= i
             IN  SubSeq(s, last + 1, Len(s))

\* Mutant of AllDigits: the pattern lacks the end anchor.
StartsWithDigits(s) == Len(s) > 0 /\ s[1] \in Digits

\* /^\d+$/.test(s)
AllDigits(s) == Len(s) > 0 /\ \A i \in 1..Len(s) : s[i] \in Digits

\* parseInt(s): the value of the longest prefix of decimal digits (NaN, not
\* modelled, when there is none; the callers pass strings that start with a
\* digit).
RECURSIVE ParseIntFrom(_, _, _)
ParseIntFrom(s, i, acc) ==
    IF i > Len(s) \/ s[i] \notin Digits THEN acc
    ELSE ParseIntFrom(s, i + 1, 10 * acc + DigitVal(s[i]))

ParseInt(s) == ParseIntFrom(s, 1, 0)

(***************************************************************************)
(* Object names and the listings of the bucket under sessions/.            *)
(***************************************************************************)
SessionsPrefix == <<"s","e","s","s","i","o","n","s","/">>
OriginalJpg == <<"o","r","i","g","i","n","a","l",".","j","p","g">>
DerenderedJpg == <<"d","e","r","e","n","d","e","r","e","d",".","j","p","g">>
FoundationDash == <<"f","o","u","n","d","a","t","i","o","n","-">>
DotJpg == <<".","j","p","g">>
Unknown == <<"u","n","k","n","o","w","n">>
Slash == <<"/">>
BucketUrl == <<"https://storage.googleapis.com/melaleuca-mirror.firebasestorage.app/">>

\* The object names a listing is drawn from, in the object store's
\* (lexicographic) listing order.
AllPaths ==
    << SessionsPrefix \o Slash \o OriginalJpg,
       SessionsPrefix \o <<"1">> \o Slash \o OriginalJpg,
       SessionsPrefix \o <<"1","2">> \o Slash \o DerenderedJpg,
       SessionsPrefix \o <<"1","2">> \o Slash \o FoundationDash \o <<"A","-","7">> \o DotJpg,
       SessionsPrefix \o <<"1","2">> \o Slash \o FoundationDash \o <<"b","a","d">> \o DotJpg,
       SessionsPrefix \o <<"1","a">> \o Slash \o <<"b">> \o Slash \o OriginalJpg,
       SessionsPrefix \o <<"x">> \o DotJpg >>

\* The elements of AllPaths at the positions of set S, in order.
RECURSIVE Pick(_, _)
Pick(S, i) ==
    IF i > Len(AllPaths) THEN <<>>
    ELSE (IF i \in S THEN <<AllPaths[i]>> ELSE <<>>) \o Pick(S, i + 1)

Listings ==
    {Pick(S, 1) : S \in {T \in SUBSET (1..Len(AllPaths)) : Cardinality(T) <= MaxFiles}}

(***************************************************************************)
(* route.ts: grouping the listing into session folders.                    *)
(***************************************************************************)
\* file.name.match(/^sessions\/([^\/]+)\//): the captured group, if any.
FolderMatch(name) ==
    IF ~StartsWith(name, SessionsPrefix) THEN Undefined
    ELSE LET rest == SubSeq(name, Len(SessionsPrefix) + 1, Len(name))
             slashes == {i \in 1..Len(rest) : rest[i] = "/"}
         IN  IF slashes = {} THEN Undefined
             ELSE LET first == CHOOSE i \in slashes : \A j \in slashes : i <= j
                  IN  IF first = 1 THEN Undefined
                      ELSE Some(SubSeq(rest, 1, first - 1))

\* Mutant of SetAdd: an array push, which keeps repetitions.
SetAddDup(seq, x) == Append(seq, x)

\* Set.add in insertion order: a sequence without repetitions.
SetAdd(seq, x) ==
    IF \E i \in 1..Len(seq) : seq[i] = x THEN seq ELSE Append(seq, x)

RECURSIVE FoldersFrom(_, _, _)
FoldersFrom(fs, i, acc) ==
    IF i > Len(fs) THEN acc
    ELSE LET m == FolderMatch(fs[i])
         IN  FoldersFrom(fs, i + 1, IF IsSome(m) THEN SetAdd(acc, Val(m)) ELSE acc)

\* sessionFolders, in the order the for..of loop visits it.
SessionFolders(fs) == FoldersFrom(fs, 1, <<>>)

(***************************************************************************)
(* route.ts: the session document synthesized from a folder's files.       *)
(***************************************************************************)
\* Mutant of SessionFiles: the prefix lacks the closing slash.
SessionFilesNoSlash(fs, id) ==
    SelectSeq(fs, LAMBDA n : StartsWith(n, SessionsPrefix \o id))

\* files.filter(f => f.name.startsWith(`sessions/${sessionId}/`))
SessionFiles(fs, id) ==
    SelectSeq(fs, LAMBDA n : StartsWith(n, SessionsPrefix \o id \o Slash))

\* fileNames.includes(target), fileNames = sessionFiles.map(f => f.name.split('/').pop())
HasFileNamed(sfs, target) ==
    \E i \in 1..Len(sfs) : LastSegment(sfs[i]) = target

\* /foundation-([^-]+)-(\d+)\.jpg/ tried at position i of s: the two groups.
FoundationMatchAt(s, i) ==
    IF ~StartsWith(SubSeq(s, i, Len(s)), FoundationDash) THEN Undefined
    ELSE LET j == i + Len(FoundationDash)
             dashes == {k \in j..Len(s) : s[k] = "-"}
         IN  IF dashes = {} THEN Undefined
             ELSE LET k == CHOOSE d \in dashes : \A e \in dashes : d <= e
                      nondig == {e \in (k + 1)..Len(s) : s[e] \notin Digits}
                  IN  IF k = j \/ nondig = {} THEN Undefined
                      ELSE LET e == CHOOSE x \in nondig : \A y \in nondig : x <= y
                           IN  IF e > k + 1 /\ StartsWith(SubSeq(s, e, Len(s)), DotJpg)
                               THEN Some([sku |-> SubSeq(s, j, k - 1),
                                          digits |-> SubSeq(s, k + 1, e - 1)])
                               ELSE Undefined

\* fileName.match(/foundation-([^-]+)-(\d+)\.jpg/): the leftmost match.
FoundationMatch(s) ==
    LET hits == {i \in 1..Len(s) : IsSome(FoundationMatchAt(s, i))}
    IN  IF hits = {} THEN Undefined
        ELSE FoundationMatchAt(s, CHOOSE i \in hits : \A j \in hits : i <= j)

\* Mutant of FoundationFiles: only the files the pattern matches are kept.
FoundationFilesMatching(sfs) ==
    SelectSeq(sfs, LAMBDA n : IsSome(FoundationMatch(LastSegment(n))))

\* sessionFiles.filter(f => f.name.includes('foundation-') && f.name.endsWith('.jpg'))
FoundationFiles(sfs) ==
    SelectSeq(sfs, LAMBDA n : Includes(n, FoundationDash) /\ EndsWith(n, DotJpg))

\* One entry of foundationTryons, for the object named n, at time t.
Tryon(n, t) ==
    LET m == FoundationMatch(LastSegment(n))
    IN  [sku |-> IF IsSome(m) THEN Val(m).sku ELSE Unknown,
         timestamp |-> IF IsSome(m) THEN ParseInt(Val(m).digits) ELSE t,
         imageUrl |-> BucketUrl \o n]

\* sessionDoc as handed to docRef.set, built at time t.
BuildSessionDoc(fs, id, t) ==
    LET sfs == SessionFiles(fs, id)
        ffs == FoundationFiles(sfs)
    IN  [createdAt |-> IF AllDigits(id) THEN ParseInt(id) ELSE t,
         originalImageUrl |->
            IF HasFileNamed(sfs, OriginalJpg)
            THEN Some(BucketUrl \o SessionsPrefix \o id \o Slash \o OriginalJpg)
            ELSE Undefined,
         derenderedImageUrl |->
            IF HasFileNamed(sfs, DerenderedJpg)
            THEN Some(BucketUrl \o SessionsPrefix \o id \o Slash \o DerenderedJpg)
            ELSE Undefined,
         foundationTryons |-> [i \in 1..Len(ffs) |-> Tryon(ffs[i], t)],
         status |-> "active",
         syncedFromStorage |-> TRUE,
         syncedAt |-> t]

\* A session record written by the application's normal flow, before any sweep.
AppDoc ==
    [createdAt |-> 0, originalImageUrl |-> Undefined, derenderedImageUrl |-> Undefined,
     foundationTryons |-> <<>>, status |-> "active", syncedFromStorage |-> FALSE,
     syncedAt |-> 0]

(***************************************************************************)
(* The document store's `sessions` collection: a function from the         *)
(* identifiers that have a document to the document.                       *)
(***************************************************************************)
\* Mutant of DocExists: the existence check always answers "absent".
DocExistsNever(store, id) == FALSE

\* (await docRef.get()).exists
DocExists(store, id) == id \in DOMAIN store

\* Mutant of DocSet: the write resolves but stores nothing.
DocSetLost(store, id, doc) == store

\* Mutant of DocSet: a create that leaves an existing document as it is.
DocSetKeeps(store, id, doc) ==
    [x \in (DOMAIN store) \cup {id} |-> IF x \in DOMAIN store THEN store[x] ELSE doc]

\* await docRef.set(doc): creates or replaces the document.
DocSet(store, id, doc) ==
    [x \in (DOMAIN store) \cup {id} |-> IF x = id THEN doc ELSE store[x]]

(***************************************************************************)
(* route.ts POST: the sweep.  sweep[p] holds the locals of invocation p.   *)
(*   pc       where the invocation stands: idle, auth, list, get, set, done*)
(*   req      the request body and SYNC_SECRET, while the check needs them *)
(*   folders  sessionFolders in iteration order; idx the loop's position   *)
(*   results  the tally                                                    *)
(*   pending  sessionDoc between the read and the write                    *)
(*   calls    the external calls the invocation has made                   *)
(*   resp     the HTTP response; prev the response of the run before       *)
(***************************************************************************)
SweepProcs == {1, 2}

EmptyResults ==
    [totalFolders |-> 0, alreadySynced |-> 0, newlyCreated |-> 0, failed |-> 0,
     details |-> <<>>]

IdleSweep ==
    [pc |-> "idle", req |-> Undefined, folders |-> <<>>, idx |-> 1,
     results |-> EmptyResults, pending |-> Undefined, calls |-> {},
     resp |-> Undefined, prev |-> Undefined]

\* What `await req.json()` can give: a rejection (no body, not JSON), JSON
\* null, or an object whose `secret` is absent or a string.
SweepBodies ==
    {[kind |-> "unparseable", secret |-> Undefined],
     [kind |-> "null", secret |-> Undefined],
     [kind |-> "object", secret |-> Undefined],
     [kind |-> "object", secret |-> Some("")],
     [kind |-> "object", secret |-> Some("s3cret")],
     [kind |-> "object", secret |-> Some("wrong")]}

\* process.env.SYNC_SECRET
EnvSecrets == {Undefined, Some(""), Some("s3cret")}

\* JavaScript truthiness of an optional string.
Truthy(o) == IsSome(o) /\ Val(o) # ""

\* expectedSecret && secret !== expectedSecret
AuthRejects(expected, secret) == Truthy(expected) /\ secret # expected

Response(status, body) == Some([status |-> status, body |-> body])

InternalError(msg) == Response(500, [error |-> "Internal Server Error", details |-> msg])

\* The loop's end: once past the last folder the tally is returned.
Finish(r) ==
    IF r.idx > Len(r.folders)
    THEN [r EXCEPT !.pc = "done", !.resp = Response(200, r.results)]
    ELSE r

Detail(id, status) == [sessionId |-> id, status |-> status]

FailedDetail(id, msg) == [sessionId |-> id, status |-> "failed", error |-> msg]

\* results.alreadySynced++; results.details.push(...)
CountAlreadySynced(res, id) ==
    [res EXCEPT !.alreadySynced = @ + 1,
                !.details = Append(@, Detail(id, "already_exists"))]

\* results.newlyCreated++; results.details.push(...)
CountCreated(res, id) ==
    [res EXCEPT !.newlyCreated = @ + 1,
                !.details = Append(@, Detail(id, "created"))]

\* the catch block of the loop body
CountFailed(res, id, msg) ==
    [res EXCEPT !.failed = @ + 1,
                !.details = Append(@, FailedDetail(id, msg))]

\* Mutant of LoopCatch: no try around the loop body, the failure reaches the
\* outer catch and ends the sweep.
LoopCatchAborts(r, id, msg) ==
    [r EXCEPT !.pc = "done", !.pending = Undefined, !.resp = InternalError(msg)]

\* Lines 103-111: the loop body's catch; the loop goes on with the next folder.
LoopCatch(r, id, msg) ==
    [r EXCEPT !.pc = "get", !.pending = Undefined,
              !.results = CountFailed(@, id, msg), !.idx = @ + 1]

\* Line 7: the body is read; JSON null cannot be destructured and the outer
\* catch answers 500.
PostReceive(p) ==
    /\ sweep[p].pc = "idle"
    /\ served < MaxRequests
    /\ served' = served + 1
    /\ \E body \in SweepBodies, expected \in EnvSecrets :
         sweep' = [sweep EXCEPT ![p] =
            IF body.kind = "null"
            THEN [IdleSweep EXCEPT
                    !.pc = "done",
                    !.req = Some([body |-> body, expected |-> expected]),
                    !.resp = InternalError("Cannot destructure property 'secret'"),
                    !.prev = sweep[p].prev]
            ELSE [IdleSweep EXCEPT
                    !.pc = "auth",
                    !.req = Some([body |-> body, expected |-> expected]),
                    !.prev = sweep[p].prev]]
    /\ UNCHANGED <<now, files, sessions, generations, bucket, dry, gen>>

\* Lines 8-15: the shared-secret check.
PostAuth(p) ==
    /\ sweep[p].pc = "auth"
    /\ LET rq == Val(sweep[p].req)
       IN  sweep' = [sweep EXCEPT ![p] =
              IF AuthRejects(rq.expected, rq.body.secret)
              THEN [@ EXCEPT !.pc = "done",
                             !.resp = Response(401, [error |-> "Unauthorized"])]
              ELSE [@ EXCEPT !.pc = "list", !.req = Undefined]]
    /\ UNCHANGED <<now, files, sessions, generations, bucket, served, dry, gen>>

\* Lines 17-35: bucket.getFiles resolves (the folders are grouped and the
\* tally started) or rejects (the outer catch answers 500).
PostList(p) ==
    /\ sweep[p].pc = "list"
    /\ \/ sweep' = [sweep EXCEPT ![p] =
            Finish([@ EXCEPT !.pc = "get",
                             !.calls = @ \cup {"list"},
                             !.folders = SessionFolders(files),
                             !.idx = 1,
                             !.results = [EmptyResults EXCEPT
                                 !.totalFolders = Len(SessionFolders(files))]])]
       \/ sweep' = [sweep EXCEPT ![p] =
            [@ EXCEPT !.pc = "done", !.calls = @ \cup {"list"},
                      !.resp = InternalError("getFiles failed")]]
    /\ UNCHANGED <<now, files, sessions, generations, bucket, served, dry, gen>>

\* Lines 39-96: docRef.get() resolves with an existing document (counted,
\* next folder), resolves without one (the document is built, the write is
\* issued) or rejects (counted as failed, next folder).
PostGet(p) ==
    /\ sweep[p].pc = "get"
    /\ LET r == sweep[p]
           id == r.folders[r.idx]
       IN  \/ /\ DocExists(sessions, id)
              /\ now' = now
              /\ sweep' = [sweep EXCEPT ![p] =
                    Finish([r EXCEPT !.calls = @ \cup {"get"},
                                     !.results = CountAlreadySynced(@, id),
                                     !.idx = @ + 1])]
           \/ /\ ~DocExists(sessions, id)
              /\ \E t \in 1..MaxNow :
                    /\ DateNow(t)
                    /\ sweep' = [sweep EXCEPT ![p] =
                          [r EXCEPT !.calls = @ \cup {"get"},
                                    !.pc = "set",
                                    !.pending = Some(BuildSessionDoc(files, id, t))]]
           \/ /\ now' = now
              /\ sweep' = [sweep EXCEPT ![p] =
                    Finish(LoopCatch([r EXCEPT !.calls = @ \cup {"get"}],
                                     id, "read failed"))]
    /\ UNCHANGED <<files, sessions, generations, bucket, served, dry, gen>>

\* Lines 98-111: docRef.set(sessionDoc) resolves (the document is stored and
\* counted as created) or rejects (counted as failed); then the next folder.
PostSet(p) ==
    /\ sweep[p].pc = "set"
    /\ LET r == sweep[p]
           id == r.folders[r.idx]
       IN  \/ /\ sessions' = DocSet(sessions, id, Val(r.pending))
              /\ sweep' = [sweep EXCEPT ![p] =
                    Finish([r EXCEPT !.calls = @ \cup {"set"},
                                     !.pc = "get",
                                     !.pending = Undefined,
                                     !.results = CountCreated(@, id),
                                     !.idx = @ + 1])]
           \/ /\ sessions' = sessions
              /\ sweep' = [sweep EXCEPT ![p] =
                    Finish(LoopCatch([r EXCEPT !.calls = @ \cup {"set"}],
                                     id, "write failed"))]
    /\ UNCHANGED <<now, files, generations, bucket, served, dry, gen>>

\* What is remembered of a response: its status and, of a tally, the counts.
Summary(resp) ==
    LET x == Val(resp)
    IN  Some([status |-> x.status,
              body |-> IF x.status = 200
                       THEN [x.body EXCEPT !.details = <<>>]
                       ELSE x.body])

\* The response is sent and the invocation's locals go out of scope; prev
\* remembers the tally this run answered, if it answered one, and an earlier
\* dry run is no longer the request served just before.
PostRespond(p) ==
    /\ sweep[p].pc = "done"
    /\ sweep' = [sweep EXCEPT ![p] =
          [IdleSweep EXCEPT !.prev = IF Val(sweep[p].resp).status = 200
                                     THEN Summary(sweep[p].resp) ELSE Undefined]]
    /\ dry' = [dry EXCEPT !.prev = Undefined]
    /\ UNCHANGED <<now, files, sessions, generations, bucket, served, gen>>

(***************************************************************************)
(* route.ts GET: the dry run.  dry holds the locals of the invocation.     *)
(***************************************************************************)
EmptyDryResults ==
    [totalFolders |-> 0, inFirestore |-> 0, missingFromFirestore |-> 0,
     missing |-> <<>>]

\* prev is the response of the dry run, kept while no request served after
\* it has been answered.
IdleDry ==
    [pc |-> "idle", folders |-> <<>>, idx |-> 1, results |-> EmptyDryResults,
     calls |-> {}, resp |-> Undefined, prev |-> Undefined]

\* The loop's end: the report is returned.
DryFinish(r) ==
    IF r.idx > Len(r.folders)
    THEN [r EXCEPT !.pc = "done", !.resp = Response(200, r.results)]
    ELSE r

\* Mutant of CountInFirestore: an existing record is not counted.
CountInFirestoreNot(res) == res

\* results.inFirestore++
CountInFirestore(res) == [res EXCEPT !.inFirestore = @ + 1]

\* Mutant of CountMissing: the identifier is counted but not listed.
CountMissingNoPush(res, id) == [res EXCEPT !.missingFromFirestore = @ + 1]

\* results.missingFromFirestore++; results.missing.push(sessionId)
CountMissing(res, id) ==
    [res EXCEPT !.missingFromFirestore = @ + 1, !.missing = Append(@, id)]

\* Line 128: the request arrives.
DryReceive ==
    /\ dry.pc = "idle"
    /\ served < MaxRequests
    /\ served' = served + 1
    /\ dry' = [IdleDry EXCEPT !.pc = "list"]
    /\ UNCHANGED <<now, files, sessions, generations, bucket, sweep, gen>>

\* Lines 130-145: bucket.getFiles resolves or rejects (500).
DryList ==
    /\ dry.pc = "list"
    /\ \/ dry' = DryFinish([dry EXCEPT
                    !.pc = "get",
                    !.calls = @ \cup {"list"},
                    !.folders = SessionFolders(files),
                    !.idx = 1,
                    !.results = [EmptyDryResults EXCEPT
                        !.totalFolders = Len(SessionFolders(files))]])
       \/ dry' = [dry EXCEPT !.pc = "done", !.calls = @ \cup {"list"},
                             !.resp = InternalError("getFiles failed")]
    /\ UNCHANGED <<now, files, sessions, generations, bucket, served, sweep, gen>>

\* Lines 147-157: docRef.get() resolves (the identifier is counted on one
\* side) or rejects: the loop has no try of its own, so the outer catch
\* answers 500.
DryGet ==
    /\ dry.pc = "get"
    /\ LET id == dry.folders[dry.idx]
       IN  \/ /\ DocExists(sessions, id)
              /\ dry' = DryFinish([dry EXCEPT !.calls = @ \cup {"get"},
                                              !.results = CountInFirestore(@),
                                              !.idx = @ + 1])
           \/ /\ ~DocExists(sessions, id)
              /\ dry' = DryFinish([dry EXCEPT !.calls = @ \cup {"get"},
                                              !.results = CountMissing(@, id),
                                              !.idx = @ + 1])
           \/ dry' = [dry EXCEPT !.pc = "done", !.calls = @ \cup {"get"},
                                 !.resp = InternalError("read failed")]
    /\ UNCHANGED <<now, files, sessions, generations, bucket, served, sweep, gen>>

\* The report is sent and the invocation's locals go out of scope; prev
\* remembers the report, and an earlier sweep is no longer the request served
\* just before.
DryRespond ==
    /\ dry.pc = "done"
    /\ dry' = [IdleDry EXCEPT !.prev = dry.resp]
    /\ sweep' = [p \in SweepProcs |-> [sweep[p] EXCEPT !.prev = Undefined]]
    /\ UNCHANGED <<now, files, sessions, generations, bucket, served, gen>>

(***************************************************************************)
(* firebaseAdmin.ts POST: the generation handler.  gen[r] holds the locals *)
(* of invocation r.                                                        *)
(*   pc         idle, validate, model, upload1, upload2, add, done         *)
(*   req        the request body and GOOGLE_API_KEY, until validated       *)
(*   image, mimeType   the request's fields                                *)
(*   out        imageOutput; timestamp the value of Date.now() at line 106 *)
(*   response   what generateContent resolved with                         *)
(*   urls       the public URLs returned by uploadImage so far             *)
(*   calls      the external calls made; added the records this request    *)
(*              added; failed the persistence step whose promise rejected  *)
(***************************************************************************)
GenProcs == {1, 2}

IdleGen ==
    [pc |-> "idle", req |-> Undefined, image |-> Undefined, mimeType |-> Undefined,
     response |-> Undefined, out |-> Undefined, timestamp |-> 0, urls |-> <<>>, calls |-> {}, added |-> 0,
     failed |-> "", resp |-> Undefined]

\* What `await req.json()` can give: a rejection, JSON null, or an object
\* whose image and mimeType are absent or strings.
GenBodies ==
    {[kind |-> "unparseable", image |-> Undefined, mimeType |-> Undefined],
     [kind |-> "null", image |-> Undefined, mimeType |-> Undefined]}
    \cup {[kind |-> "object", image |-> i, mimeType |-> m] :
            i \in {Undefined, Some(""), Some("imgA")},
            m \in {Undefined, Some("image/png")}}

\* process.env.GOOGLE_API_KEY
EnvKeys == {Undefined, Some(""), Some("key")}

\* Parts of a model response: a text part and two inline image parts.
TextPart == [inlineData |-> Undefined, text |-> Some("words")]
ImagePartX == [inlineData |-> Some([data |-> "outX", mimeType |-> "image/png"]),
               text |-> Undefined]
ImagePartY == [inlineData |-> Some([data |-> "outY", mimeType |-> "image/webp"]),
               text |-> Undefined]

Candidate(parts) == [content |-> Some([parts |-> Some(parts)])]
NoContent == [content |-> Undefined]
NoParts == [content |-> Some([parts |-> Undefined])]

\* The responses model.generateContent can resolve with.  text is what
\* response.text() returns (undefined from a bare object, the empty string
\* when there is no text part), blocked that response.text() throws.
ModelResponses ==
    {[candidates |-> Undefined, text |-> Undefined, blocked |-> FALSE],
     [candidates |-> Some(<<>>), text |-> Some(""), blocked |-> FALSE],
     [candidates |-> Some(<<NoContent>>), text |-> Some(""), blocked |-> FALSE],
     [candidates |-> Some(<<NoParts>>), text |-> Some(""), blocked |-> FALSE],
     [candidates |-> Some(<<Candidate(<<>>)>>), text |-> Some(""), blocked |-> FALSE],
     [candidates |-> Some(<<Candidate(<<TextPart>>)>>), text |-> Some("words"), blocked |-> FALSE],
     [candidates |-> Some(<<Candidate(<<ImagePartX>>)>>), text |-> Some(""), blocked |-> FALSE],
     [candidates |-> Some(<<Candidate(<<TextPart, ImagePartY>>)>>), text |-> Some("words"), blocked |-> FALSE],
     [candidates |-> Some(<<Candidate(<<ImagePartX, ImagePartY>>)>>), text |-> Some(""), blocked |-> FALSE],
     [candidates |-> Some(<<Candidate(<<ImagePartY, ImagePartX>>)>>), text |-> Some(""), blocked |-> FALSE],
     [candidates |-> Some(<<Candidate(<<TextPart>>), Candidate(<<ImagePartX>>)>>),
      text |-> Some("words"), blocked |-> FALSE],
     [candidates |-> Some(<<Candidate(<<ImagePartY>>), Candidate(<<ImagePartX>>)>>),
      text |-> Some(""), blocked |-> FALSE],
     [candidates |-> Undefined, text |-> Undefined, blocked |-> TRUE]}

\* response.candidates?.[0]?.content?.parts
FirstParts(response) ==
    IF ~IsSome(response.candidates) THEN Undefined
    ELSE IF Len(Val(response.candidates)) = 0 THEN Undefined
    ELSE LET c == Val(response.candidates)[1]
         IN  IF ~IsSome(c.content) THEN Undefined ELSE Val(c.content).parts

\* Mutant of ImageOutput: the last part with inline data is taken.
ImageOutputLast(response) ==
    LET parts == FirstParts(response)
    IN  IF ~IsSome(parts) THEN Undefined
        ELSE LET ps == Val(parts)
                 hits == {i \in 1..Len(ps) : IsSome(ps[i].inlineData)}
             IN  IF hits = {} THEN Undefined
                 ELSE ps[CHOOSE i \in hits : \A j \in hits : j <= i].inlineData

\* parts?.find(p => p.inlineData)?.inlineData
ImageOutput(response) ==
    LET parts == FirstParts(response)
    IN  IF ~IsSome(parts) THEN Undefined
        ELSE LET ps == Val(parts)
                 hits == {i \in 1..Len(ps) : IsSome(ps[i].inlineData)}
             IN  IF hits = {} THEN Undefined
                 ELSE ps[CHOOSE i \in hits : \A j \in hits : i <= j].inlineData

\* mimeType || "image/jpeg"
MimeOrDefault(m) == IF Truthy(m) THEN Val(m) ELSE "image/jpeg"

\* Mutant of Validate: the image check is missing.
ValidateSkipsImage(image, apiKey) ==
    IF ~Truthy(apiKey) THEN "500" ELSE "ok"

\* Mutant of Validate: the credential is checked before the image.
ValidateKeyFirst(image, apiKey) ==
    IF ~Truthy(apiKey) THEN "500"
    ELSE IF ~Truthy(image) THEN "400"
    ELSE "ok"

\* Lines 39-52: the two checks, in the code's order.
Validate(image, apiKey) ==
    IF ~Truthy(image) THEN "400"
    ELSE IF ~Truthy(apiKey) THEN "500"
    ELSE "ok"

\* `generations/${timestamp}/${fileName}`
ObjectKey(timestamp, fileName) == <<"generations", timestamp, fileName>>

\* `https://storage.googleapis.com/${bucket.name}/${file.name}`
PublicUrl(key) == BucketUrl \o key

\* Mutant of FileSave: the save resolves but stores nothing.
FileSaveLost(store, key, data, contentType) == store

\* file.save(buffer, {metadata: {contentType}, public: true})
FileSave(store, key, data, contentType) ==
    [k \in (DOMAIN store) \cup {key} |->
        IF k = key THEN [data |-> data, contentType |-> contentType, public |-> TRUE]
        ELSE store[k]]

\* Mutant of CollectionAdd: a set() on one fixed document id, which
\* replaces what the collection held.
CollectionAddReplaces(coll, doc) == <<doc>>

\* db.collection('generations').add(doc): a new document with a fresh id.
CollectionAdd(coll, doc) == Append(coll, doc)

\* generationDoc
GenerationDoc(r) ==
    [timestamp |-> r.timestamp,
     originalImageUrl |-> r.urls[1],
     originalMimeType |-> MimeOrDefault(r.mimeType),
     processedImageUrl |-> r.urls[2],
     processedMimeType |-> Val(r.out).mimeType,
     model |-> "gemini-3-pro-image-preview"]

\* Lines 155-158: the processed image is returned.
ImageResponse(r) ==
    Response(200, [image |-> Val(r.out).data, mimeType |-> Val(r.out).mimeType])

\* Mutant of PersistFailed: no try around the persistence, the failure
\* reaches the outer catch.
PersistFailedPropagates(r, step) ==
    [r EXCEPT !.pc = "done", !.failed = step, !.resp = InternalError(step)]

\* Lines 150-158: a rejected persistence step is caught and logged, and the
\* processed image is returned.
PersistFailed(r, step) ==
    [r EXCEPT !.pc = "done", !.failed = step, !.resp = ImageResponse(r)]

\* Line 37: the body is read; a rejection of req.json(), or JSON null (which
\* cannot be destructured), goes to the outer catch.
GenReceive(r) ==
    /\ gen[r].pc = "idle"
    /\ served < MaxRequests
    /\ served' = served + 1
    /\ \E body \in GenBodies, apiKey \in EnvKeys :
         gen' = [gen EXCEPT ![r] =
            IF body.kind # "object"
            THEN [IdleGen EXCEPT
                    !.pc = "done",
                    !.req = Some([body |-> body, apiKey |-> apiKey]),
                    !.resp = InternalError("invalid body")]
            ELSE [IdleGen EXCEPT
                    !.pc = "validate",
                    !.req = Some([body |-> body, apiKey |-> apiKey]),
                    !.image = body.image,
                    !.mimeType = body.mimeType]]
    /\ UNCHANGED <<now, files, sessions, generations, bucket, sweep, dry>>

\* Lines 39-54: validation of the image, then of the credential.
GenValidate(r) ==
    /\ gen[r].pc = "validate"
    /\ LET v == Validate(gen[r].image, Val(gen[r].req).apiKey)
       IN  gen' = [gen EXCEPT ![r] =
              IF v = "400"
              THEN [@ EXCEPT !.pc = "done",
                             !.resp = Response(400, [error |-> "Image data is required"])]
              ELSE IF v = "500"
              THEN [@ EXCEPT !.pc = "done",
                             !.resp = Response(500, [error |-> "GOOGLE_API_KEY is not set"])]
              ELSE [@ EXCEPT !.pc = "model", !.req = Undefined]]
    /\ UNCHANGED <<now, files, sessions, generations, bucket, served, sweep, dry>>

\* Mutant of NoImage: the absence of an image is answered as a server error.
NoImageAsError(g, response) ==
    [g EXCEPT !.pc = "done", !.resp = InternalError("No image generated by model")]

\* Lines 161-171: without an image the text of the response is read (a throw
\* of response.text() goes to the outer catch) and returned as rawText.
NoImage(g, response) ==
    IF response.blocked
    THEN [g EXCEPT !.pc = "done", !.resp = InternalError("text() failed")]
    ELSE [g EXCEPT !.pc = "done",
                   !.resp = Response(200, [error |-> "No image generated by model",
                                           rawText |-> response.text])]

\* Lines 84-106 and 161-171: generateContent rejects (500), or resolves; with
\* an inline image the persistence starts at the current time, without one
\* the "no image" payload is returned.
GenModel(r) ==
    /\ gen[r].pc = "model"
    /\ \/ /\ now' = now
          /\ gen' = [gen EXCEPT ![r] =
                [@ EXCEPT !.pc = "done", !.calls = @ \cup {"model"},
                          !.resp = InternalError("generateContent failed")]]
       \/ \E response \in ModelResponses :
            LET out == ImageOutput(response)
                g == [gen[r] EXCEPT !.calls = @ \cup {"model"},
                                    !.response = Some(response)]
            IN  IF IsSome(out)
                THEN \E t \in 1..MaxNow :
                       /\ DateNow(t)
                       /\ gen' = [gen EXCEPT ![r] =
                             [g EXCEPT !.pc = "upload1", !.out = out, !.timestamp = t]]
                ELSE /\ now' = now
                     /\ gen' = [gen EXCEPT ![r] = NoImage(g, response)]
    /\ UNCHANGED <<files, sessions, generations, bucket, served, sweep, dry>>

\* Lines 125-129: the original image is uploaded.  The response of the
\* model is not read again once the image has been taken from it.
GenUpload1(r) ==
    /\ gen[r].pc = "upload1"
    /\ LET g == [gen[r] EXCEPT !.response = Undefined, !.calls = @ \cup {"upload1"}]
           key == ObjectKey(g.timestamp, "original.jpg")
       IN  \/ /\ bucket' = FileSave(bucket, key, Val(g.image), MimeOrDefault(g.mimeType))
              /\ gen' = [gen EXCEPT ![r] =
                    [g EXCEPT !.pc = "upload2", !.urls = Append(@, PublicUrl(key))]]
           \/ /\ bucket' = bucket
              /\ gen' = [gen EXCEPT ![r] = PersistFailed(g, "upload1")]
    /\ UNCHANGED <<now, files, sessions, generations, served, sweep, dry>>

\* Lines 131-135: the processed image is uploaded.
GenUpload2(r) ==
    /\ gen[r].pc = "upload2"
    /\ LET g == gen[r]
           key == ObjectKey(g.timestamp, "processed.jpg")
       IN  \/ /\ bucket' = FileSave(bucket, key, Val(g.out).data, Val(g.out).mimeType)
              /\ gen' = [gen EXCEPT ![r] =
                    [g EXCEPT !.pc = "add", !.calls = @ \cup {"upload2"},
                              !.urls = Append(@, PublicUrl(key))]]
           \/ /\ bucket' = bucket
              /\ gen' = [gen EXCEPT ![r] =
                    PersistFailed([g EXCEPT !.calls = @ \cup {"upload2"}], "upload2")]
    /\ UNCHANGED <<now, files, sessions, generations, served, sweep, dry>>

\* Lines 137-158: the generation record is added, and the processed image
\* is returned.
GenAdd(r) ==
    /\ gen[r].pc = "add"
    /\ LET g == gen[r]
       IN  \/ /\ generations' = CollectionAdd(generations, GenerationDoc(g))
              /\ gen' = [gen EXCEPT ![r] =
                    [g EXCEPT !.pc = "done", !.calls = @ \cup {"add"},
                              !.added = @ + 1, !.resp = ImageResponse(g)]]
           \/ /\ generations' = generations
              /\ gen' = [gen EXCEPT ![r] =
                    PersistFailed([g EXCEPT !.calls = @ \cup {"add"}], "add")]
    /\ UNCHANGED <<now, files, sessions, bucket, served, sweep, dry>>

\* The response is sent and the invocation's locals go out of scope.
GenRespond(r) ==
    /\ gen[r].pc = "done"
    /\ gen' = [gen EXCEPT ![r] = IdleGen]
    /\ UNCHANGED <<now, files, sessions, generations, bucket, served, sweep, dry>>

(***************************************************************************)
(* Initial states.  For the sweep: any listing, and a document store in    *)
(* which any of the listed sessions may already have the record the        *)
(* application wrote.  For the generation handler: an empty bucket and no  *)
(* generation records.                                                     *)
(***************************************************************************)
FolderSet(fs) == {SessionFolders(fs)[i] : i \in 1..Len(SessionFolders(fs))}

NoInvocation ==
    /\ now = 1
    /\ generations = <<>>
    /\ bucket = <<>>
    /\ served = 0
    /\ sweep = [p \in SweepProcs |-> IdleSweep]
    /\ dry = IdleDry
    /\ gen = [r \in GenProcs |-> IdleGen]

InitSweep ==
    /\ files \in Listings
    /\ sessions \in {[id \in S |-> AppDoc] : S \in SUBSET FolderSet(files)}
    /\ NoInvocation

InitGen ==
    /\ files = <<>>
    /\ sessions = <<>>
    /\ NoInvocation

(***************************************************************************)
(* SpecSeq: the sweep and the dry run served one request after the other.  *)
(***************************************************************************)
SweepBusy(p) == sweep[p].pc # "idle"

DryBusy == dry.pc # "idle"

NoRequestInFlight == ~DryBusy /\ \A p \in SweepProcs : ~SweepBusy(p)

NextSeq ==
    \/ NoRequestInFlight /\ PostReceive(1)
    \/ PostAuth(1)
    \/ PostList(1)
    \/ PostGet(1)
    \/ PostSet(1)
    \/ PostRespond(1)
    \/ NoRequestInFlight /\ DryReceive
    \/ DryList
    \/ DryGet
    \/ DryRespond

SpecSeq == InitSweep /\ [][NextSeq]_vars

(***************************************************************************)
(* SpecGen: generation requests, two invocations interleaved.              *)
(***************************************************************************)
NextGen ==
    \E r \in GenProcs :
         \/ GenReceive(r)
         \/ GenValidate(r)
         \/ GenModel(r)
         \/ GenUpload1(r)
         \/ GenUpload2(r)
         \/ GenAdd(r)
         \/ GenRespond(r)

SpecGen == InitGen /\ [][NextGen]_vars

(***************************************************************************)
(* Properties of the sweep and the dry run (SpecSeq).                      *)
(***************************************************************************)
\* The identifiers <id> for which the listing holds an object named
\* sessions/<id>/..., <id> a non-empty run of characters other than '/'.
StorageIds(fs) ==
    {id \in UNION {{SubSeq(fs[i], Len(SessionsPrefix) + 1, k) : k \in 1..Len(fs[i])} :
                      i \in 1..Len(fs)} :
        /\ Len(id) > 0
        /\ \A j \in 1..Len(id) : id[j] # "/"
        /\ \E i \in 1..Len(fs) : StartsWith(fs[i], SessionsPrefix \o id \o Slash)}

\* The invocation has answered with this status.
Answered(r, status) == r.pc = "done" /\ IsSome(r.resp) /\ Val(r.resp).status = status

\* The number of detail entries with the given status.
DetailCount(details, status) ==
    Cardinality({i \in 1..Len(details) : details[i].status = status})

\* C1: the sweep never overwrites an existing session record: no step of a
\* sweep (or of the dry run) removes or changes a document the `sessions`
\* collection already holds, so a document keeps the content it was first
\* given across any sequence of sweep runs.
ThmC1 ==
    [][\A id \in DOMAIN sessions :
          id \in DOMAIN sessions' /\ sessions'[id] = sessions[id]]_vars

\* C1 witness: a later sweep run has reached a document that an earlier
\* run synthesized, counted it as already synced, and created another
\* document at a later time.
WitC1 ==
    /\ Answered(sweep[1], 200)
    /\ IsSome(sweep[1].prev)
    /\ \E i \in 1..Len(sweep[1].results.details) :
         LET d == sweep[1].results.details[i]
         IN  /\ d.status = "already_exists"
             /\ d.sessionId \in DOMAIN sessions
             /\ sessions[d.sessionId].syncedFromStorage
             /\ \E e \in DOMAIN sessions :
                   sessions[e].syncedAt > sessions[d.sessionId].syncedAt

\* C2: a sweep that returns its tally reports totalFolders = n and
\* alreadySynced + newlyCreated + failed = n, n the number of distinct
\* identifiers with objects under sessions/<id>/, whichever reads and
\* writes failed.
ThmC2 ==
    \A p \in SweepProcs :
        Answered(sweep[p], 200) =>
            LET body == Val(sweep[p].resp).body
                n == Cardinality(StorageIds(files))
            IN  /\ body.totalFolders = n
                /\ body.alreadySynced + body.newlyCreated + body.failed = n

\* C2 witness: a tally over two or more identifiers, in a listing with more
\* objects than identifiers, with a failure and a creation in it.
WitC2 ==
    /\ Answered(sweep[1], 200)
    /\ Cardinality(StorageIds(files)) >= 2
    /\ Len(files) > Cardinality(StorageIds(files))
    /\ Val(sweep[1].resp).body.failed >= 1
    /\ Val(sweep[1].resp).body.newlyCreated >= 1

\* Two sweep runs in succession, both answered with a tally: the tally of
\* the first is in prev.
SecondRun(r) ==
    /\ Answered(r, 200)
    /\ IsSome(r.prev)
    /\ Val(r.prev).status = 200

ThmC4 ==
    \A p \in SweepProcs :
        LET r == sweep[p]
            ds == r.results.details
        IN  /\ r.pc \in {"get", "set"} =>
                /\ Len(ds) = r.idx - 1
                /\ r.idx <= Len(r.folders)
            /\ (r.pc = "done" /\ "get" \in r.calls) =>
                /\ Answered(r, 200)
                /\ Val(r.resp).body = r.results
                /\ Len(ds) = Len(r.folders)
                /\ \A i \in 1..Len(ds) :
                      /\ ds[i].sessionId = r.folders[i]
                      /\ ds[i].status \in {"created", "already_exists", "failed"}
                      /\ ds[i].status # "failed" => ds[i].sessionId \in DOMAIN sessions
                /\ r.results.failed = DetailCount(ds, "failed")
                /\ r.results.newlyCreated = DetailCount(ds, "created")
                /\ r.results.alreadySynced = DetailCount(ds, "already_exists")

\* C4 witness: of three identifiers the second failed on its write, and the
\* first and the third were created.
WitC4 ==
    /\ Answered(sweep[1], 200)
    /\ Len(sweep[1].results.details) = 3
    /\ sweep[1].results.details[1].status = "created"
    /\ sweep[1].results.details[2] =
          FailedDetail(sweep[1].folders[2], "write failed")
    /\ sweep[1].results.details[3].status = "created"
    /\ sweep[1].results.failed = 1

\* The dry run's report, when it answers 200.
DryReportRight ==
    Answered(dry, 200) =>
        LET body == Val(dry.resp).body
            absent == {id \in StorageIds(files) : id \notin DOMAIN sessions}
        IN  /\ body.totalFolders = Cardinality(StorageIds(files))
            /\ body.inFirestore + body.missingFromFirestore = body.totalFolders
            /\ {body.missing[i] : i \in 1..Len(body.missing)} = absent
            /\ Len(body.missing) = Cardinality(absent)
            /\ body.missingFromFirestore = Len(body.missing)

\* C5: the dry run writes nothing: no step of GET changes the document
\* store or the object store; and when it answers 200,
\* inFirestore + missingFromFirestore = totalFolders and `missing` lists
\* exactly the identifiers found in storage that have no document.
ThmC5 ==
    [][/\ dry' # dry => UNCHANGED <<sessions, generations, files, bucket>>
       /\ DryReportRight']_vars

\* C5 witness: a report with an identifier on each side.
WitC5 ==
    /\ Answered(dry, 200)
    /\ Val(dry.resp).body.inFirestore >= 1
    /\ Val(dry.resp).body.missingFromFirestore >= 1

\* C6 as stated: every request reaches the secret check; there, a
\* configured secret that the request's secret differs from (a missing or
\* unparseable body included) is answered 401 with no listing, read or
\* write, and with no secret configured the sweep proceeds to the listing
\* for any request body.
OrigC6 ==
    [][\A p \in SweepProcs :
          LET a == sweep[p]
              b == sweep'[p]
          IN  /\ (a.pc = "idle" /\ b.pc # "idle") =>
                    \/ b.pc = "auth"
                    \/ Answered(b, 401) /\ b.calls = {}
              /\ (a.pc = "auth" /\ b.pc # "auth") =>
                    LET rq == Val(a.req)
                    IN  /\ (Truthy(rq.expected) /\ rq.body.secret # rq.expected) =>
                              /\ Answered(b, 401)
                              /\ b.calls = {}
                              /\ UNCHANGED <<sessions, files, bucket>>
                        /\ ~Truthy(rq.expected) => b.pc = "list"]_vars

(***************************************************************************)
(* Properties of the generation handler (SpecGen).                         *)
(***************************************************************************)
\* The invocation found an inline image part and has answered.
AnsweredWithImage(g) == g.pc = "done" /\ IsSome(g.out)

\* C7: the processed image is returned even if persistence fails: whenever
\* the handler found an inline image part in the model response, it answers
\* 200 {image, mimeType} with that part's data and MIME type, whether or
\* not an upload or the document write failed.
ThmC7 ==
    \A r \in GenProcs :
        AnsweredWithImage(gen[r]) =>
            gen[r].resp = Response(200, [image |-> Val(gen[r].out).data,
                                         mimeType |-> Val(gen[r].out).mimeType])

\* C7 witness: one request whose first upload failed and one whose document
\* write failed have both answered.
WitC7 ==
    /\ AnsweredWithImage(gen[1]) /\ gen[1].failed = "upload1"
    /\ AnsweredWithImage(gen[2]) /\ gen[2].failed = "add"

\* C8 as stated: every request answered with the processed image has added
\* exactly one document to `generations`.
OrigC8 ==
    \A r \in GenProcs : AnsweredWithImage(gen[r]) => gen[r].added = 1

\* C8 amended: a request answered with the processed image has added at
\* most one document to `generations`: exactly one when both uploads and the
\* write succeeded, none when one of them failed.  The collection changes
\* only by such an addition at its end: no step changes or removes a
\* record it holds.
ThmC8 ==
    [][/\ Len(generations') >= Len(generations)
       /\ SubSeq(generations', 1, Len(generations)) = generations
       /\ Len(generations') - Len(generations) =
             Cardinality({r \in GenProcs :
                 gen[r].pc = "add" /\ gen'[r].pc = "done" /\ gen'[r].added = 1})
       /\ \A r \in GenProcs :
             AnsweredWithImage(gen'[r]) =>
                 /\ gen'[r].added \in {0, 1}
                 /\ gen'[r].added = 1 <=> gen'[r].failed = ""
                 /\ gen'[r].added = 1 => {"upload1", "upload2", "add"} \subseteq gen'[r].calls
      ]_vars

\* C8 witness: a second request has added its record after the first one's.
WitC8 ==
    /\ Len(generations) = 2
    /\ \E r \in GenProcs : AnsweredWithImage(gen[r]) /\ gen[r].added = 1

\* C9: a request with `image` omitted is answered 400 with an error payload,
\* and no external call is made: no model invocation, no object-store write,
\* no document-store write.
ThmC9 ==
    [][\A r \in GenProcs :
          (gen[r].pc = "validate" /\ gen'[r] # gen[r] /\ ~IsSome(gen[r].image)) =>
              /\ Answered(gen'[r], 400)
              /\ Val(gen'[r].resp).body = [error |-> "Image data is required"]
              /\ gen'[r].calls = {}
              /\ UNCHANGED <<bucket, generations, sessions>>]_vars

\* C9 witness: a request without image, with the credential configured, has
\* been answered 400.
WitC9 ==
    \E r \in GenProcs :
        /\ Answered(gen[r], 400)
        /\ ~IsSome(gen[r].image)
        /\ Truthy(Val(gen[r].req).apiKey)

\* C10: with the image present and the credential not configured the
\* handler answers 500 without invoking the model or writing to storage or
\* the database; with both missing the answer is 400.
ThmC10 ==
    [][\A r \in GenProcs :
          (gen[r].pc = "validate" /\ gen'[r] # gen[r]
               /\ ~Truthy(Val(gen[r].req).apiKey)) =>
              /\ gen'[r].calls = {}
              /\ UNCHANGED <<bucket, generations, sessions>>
              /\ Truthy(gen[r].image) => Answered(gen'[r], 500)
              /\ ~Truthy(gen[r].image) => Answered(gen'[r], 400)]_vars

\* C10 witness: one request with an image and no credential has been
\* answered 500, another with neither has been answered 400.
WitC10 ==
    /\ Answered(gen[1], 500) /\ IsSome(gen[1].req)
    /\ Truthy(gen[1].image) /\ ~Truthy(Val(gen[1].req).apiKey)
    /\ Answered(gen[2], 400)
    /\ ~Truthy(gen[2].image) /\ ~Truthy(Val(gen[2].req).apiKey)

(***************************************************************************)
(* Properties of the generation handler: the response of the model.        *)
(***************************************************************************)
\* The parts of every candidate of a response, whatever its position.
AllParts(response) ==
    IF ~IsSome(response.candidates) THEN {}
    ELSE UNION {IF IsSome(c.content) /\ IsSome(Val(c.content).parts)
                THEN {Val(Val(c.content).parts)[i] :
                        i \in 1..Len(Val(Val(c.content).parts))}
                ELSE {} : c \in {Val(response.candidates)[k] :
                                   k \in 1..Len(Val(response.candidates))}}

\* The request was answered after a response with no inline image part at
\* all and no text: response.text() returned undefined or the empty string.
NoImageNoText(g) ==
    /\ g.pc = "done"
    /\ IsSome(g.response)
    /\ \A p \in AllParts(Val(g.response)) : ~IsSome(p.inlineData)
    /\ ~Val(g.response).blocked
    /\ ~Truthy(Val(g.response).text)

\* The request made no call to the object store or the document store.
NoPersistence(g) == g.calls = {"model"} /\ g.urls = <<>> /\ g.added = 0

\* C11 as stated: a response with no inline image part and no text is
\* answered 200 with {error: "No image generated by model", rawText:
\* undefined}, and the request writes nothing.
OrigC11 ==
    \A r \in GenProcs :
        NoImageNoText(gen[r]) =>
            /\ gen[r].resp = Response(200, [error |-> "No image generated by model",
                                            rawText |-> Undefined])
            /\ NoPersistence(gen[r])

\* C11, amended: a response with no inline image part and no text is
\* answered 200 with the error "No image generated by model" and, as
\* rawText, what response.text() returned (undefined, or the empty string),
\* and the request writes nothing to the object store or the document store.
ThmC11 ==
    \A r \in GenProcs :
        NoImageNoText(gen[r]) =>
            /\ Answered(gen[r], 200)
            /\ Val(gen[r].resp).body.error = "No image generated by model"
            /\ Val(gen[r].resp).body.rawText = Val(gen[r].response).text
            /\ Val(gen[r].resp).body.rawText \in {Undefined, Some("")}
            /\ NoPersistence(gen[r])

\* C11 witness: one request was answered after a response whose text() is
\* the empty string, another after one whose text() is undefined.
WitC11 ==
    /\ NoImageNoText(gen[1]) /\ Val(gen[1].response).text = Some("")
    /\ Val(gen[1].resp).body.rawText = Some("")
    /\ NoImageNoText(gen[2]) /\ Val(gen[2].response).text = Undefined
    /\ Val(gen[2].resp).body.rawText = Undefined

(***************************************************************************)
(* Properties of the records the sweep synthesizes (SpecSeq).              *)
(***************************************************************************)
\* The identifiers whose record was written by the sweep.
Synthesized == {id \in DOMAIN sessions : sessions[id].syncedFromStorage}

\* The listing holds an object of this name.
Listed(name) == \E i \in 1..Len(files) : files[i] = name

\* The URL is absent, or names an object of the listing.
NamesListedObject(url) ==
    IsSome(url) => \E i \in 1..Len(files) : Val(url) = BucketUrl \o files[i]

\* C12 as stated: in every synthesized record originalImageUrl is non-null
\* exactly when the object sessions/<id>/original.jpg is in the listing,
\* derenderedImageUrl exactly when sessions/<id>/derendered.jpg is, and a
\* non-null URL names an object that exists in storage.
OrigC12 ==
    \A id \in Synthesized :
        /\ IsSome(sessions[id].originalImageUrl)
              <=> Listed(SessionsPrefix \o id \o Slash \o OriginalJpg)
        /\ IsSome(sessions[id].derenderedImageUrl)
              <=> Listed(SessionsPrefix \o id \o Slash \o DerenderedJpg)
        /\ NamesListedObject(sessions[id].originalImageUrl)
        /\ NamesListedObject(sessions[id].derenderedImageUrl)

\* The positions of the listing whose object lies under sessions/<id>/, has
\* `foundation-` in its name and ends in `.jpg`.
FoundationPositions(id) ==
    {i \in 1..Len(files) :
        /\ StartsWith(files[i], SessionsPrefix \o id \o Slash)
        /\ Includes(files[i], FoundationDash)
        /\ EndsWith(files[i], DotJpg)}

\* The k-th smallest element of a set of positions.
NthOf(I, k) == CHOOSE i \in I : Cardinality({j \in I : j < i}) = k - 1

\* The ways to read s as ... foundation-<sku>-<digits>.jpg ..., with <sku> a
\* non-empty run without hyphen and <digits> a non-empty run of digits.
PatternReadings(s) ==
    LET As == {a \in 1..Len(s) : StartsWith(SubSeq(s, a, Len(s)), FoundationDash)}
        Bs == {b \in 1..Len(s) : s[b] = "-"}
        Cs == {c \in 1..Len(s) : StartsWith(SubSeq(s, c, Len(s)), DotJpg)}
    IN  {d \in [a : As, b : Bs, c : Cs] :
            /\ d.a + Len(FoundationDash) < d.b
            /\ \A k \in (d.a + Len(FoundationDash))..(d.b - 1) : s[k] # "-"
            /\ d.b + 1 < d.c
            /\ \A k \in (d.b + 1)..(d.c - 1) : s[k] \in Digits}

RECURSIVE Pow10(_)
Pow10(n) == IF n = 0 THEN 1 ELSE 10 * Pow10(n - 1)

RECURSIVE DecimalFrom(_, _)
\* The number a run of decimal digits writes, from position i on.
DecimalFrom(d, i) ==
    IF i > Len(d) THEN 0
    ELSE DigitVal(d[i]) * Pow10(Len(d) - i) + DecimalFrom(d, i + 1)

\* The entry is the one the claim gives for the object named n in a record
\* synthesized at time t.
EntryRight(entry, n, t) ==
    LET s == LastSegment(n)
    IN  /\ entry.imageUrl = BucketUrl \o n
        /\ PatternReadings(s) = {} => entry.sku = Unknown /\ entry.timestamp = t
        /\ PatternReadings(s) # {} =>
              \E d \in PatternReadings(s) :
                 /\ entry.sku = SubSeq(s, d.a + Len(FoundationDash), d.b - 1)
                 /\ entry.timestamp = DecimalFrom(SubSeq(s, d.b + 1, d.c - 1), 1)

\* The entries of record doc, of session id, are the ones the claim gives.
TryonsRight(doc, id) ==
    LET tryons == doc.foundationTryons
        I == FoundationPositions(id)
    IN  /\ doc.syncedFromStorage
        /\ Len(tryons) = Cardinality(I)
        /\ \A k \in 1..Len(tryons) :
              EntryRight(tryons[k], files[NthOf(I, k)], doc.syncedAt)

\* C13: in every synthesized record foundationTryons has exactly one entry,
\* in listing order, for each object of the session whose name contains
\* `foundation-` and ends in `.jpg`, and none for another object; an object
\* matching foundation-<sku>-<digits>.jpg gives the parsed sku and the
\* integer timestamp, another one gives sku `unknown` and the time of the
\* sync; and an identifier is reported failed only for a failed read or
\* write, never for the parsing.
ThmC13 ==
    [][/\ \A id \in DOMAIN sessions' :
             (id \notin DOMAIN sessions \/ sessions'[id] # sessions[id]) =>
                TryonsRight(sessions'[id], id)
       /\ \A p \in SweepProcs : \A k \in 1..Len(sweep'[p].results.details) :
             LET d == sweep'[p].results.details[k]
             IN  d.status = "failed" => d.error \in {"read failed", "write failed"}]_vars

\* C13 witness: the record of session 12 was synthesized from a listing that
\* holds foundation-A-7.jpg and then foundation-bad.jpg under it; it has the
\* two entries in that order, and the sweep reported no failure.
WitC13 ==
    /\ <<"1","2">> \in Synthesized
    /\ Cardinality(FoundationPositions(<<"1","2">>)) = 2
    /\ Len(sessions[<<"1","2">>].foundationTryons) = 2
    /\ sessions[<<"1","2">>].foundationTryons[1].sku = <<"A">>
    /\ sessions[<<"1","2">>].foundationTryons[1].timestamp = 7
    /\ sessions[<<"1","2">>].foundationTryons[2].sku = Unknown
    /\ sessions[<<"1","2">>].foundationTryons[2].timestamp = sessions[<<"1","2">>].syncedAt
    /\ sessions[<<"1","2">>].syncedAt = 2
    /\ Answered(sweep[1], 200)
    /\ sweep[1].results.failed = 0

\* C14: in every synthesized record createdAt is the identifier read as a
\* decimal integer when the identifier consists entirely of digits, and
\* the time of the sync for any other identifier, one that merely starts
\* with digits included.
ThmC14 ==
    \A id \in Synthesized :
        /\ (\A k \in 1..Len(id) : id[k] \in Digits) =>
              sessions[id].createdAt = DecimalFrom(id, 1)
        /\ (\E k \in 1..Len(id) : id[k] \notin Digits) =>
              sessions[id].createdAt = sessions[id].syncedAt

\* C14 witness: the record of session 12 has createdAt 12, and the record
\* of session 1a, synthesized at time 2, has createdAt 2 and not the 1 its
\* leading digit would parse to.
WitC14 ==
    /\ {<<"1","2">>, <<"1","a">>} \subseteq Synthesized
    /\ sessions[<<"1","2">>].createdAt = 12
    /\ sessions[<<"1","a">>].syncedAt = 2
    /\ sessions[<<"1","a">>].createdAt = 2

(***************************************************************************)
(* SpecConc: two sweep invocations interleaved on the same listing and the *)
(* same document store.                                                    *)
(***************************************************************************)
\* Any listing, and a document store that holds no session record yet.
InitConc ==
    /\ files \in Listings
    /\ sessions = <<>>
    /\ NoInvocation

NextConc ==
    \E p \in SweepProcs :
         \/ PostReceive(p)
         \/ PostAuth(p)
         \/ PostList(p)
         \/ PostGet(p)
         \/ PostSet(p)

SpecConc == InitConc /\ [][NextConc]_vars

\* The identifiers invocation p has reported as created so far.
CreatedBy(p) ==
    {sweep[p].results.details[k].sessionId :
        k \in {j \in 1..Len(sweep[p].results.details) :
                  sweep[p].results.details[j].status = "created"}}

\* C15: the sweep takes no lock: between an invocation's existence check
\* and its write another invocation may write the same identifier, and
\* the write then still lands: whenever an invocation counts an identifier
\* as created, the store holds for it the record that invocation built,
\* whether or not a record was there just before the write (the later write
\* replaces the earlier one).
ThmC15 ==
    [][\A p \in SweepProcs :
          (sweep[p].pc = "set"
              /\ sweep'[p].results.newlyCreated = sweep[p].results.newlyCreated + 1) =>
             LET id == sweep[p].folders[sweep[p].idx]
             IN  /\ id \in DOMAIN sessions'
                 /\ sessions'[id] = Val(sweep[p].pending)
                 /\ id \in CreatedBy(p)']_vars

\* C15 witness: on a listing with the one session 1 both invocations found
\* no record, one built its record at time 1 and the other at time 2, both
\* wrote and both reported the session as created; the store holds the
\* record built at time 1, which replaced the one built at time 2.
WitC15 ==
    /\ SessionFolders(files) = << <<"1">> >>
    /\ \A p \in SweepProcs :
          /\ Answered(sweep[p], 200)
          /\ CreatedBy(p) = {<<"1">>}
          /\ sweep[p].results.newlyCreated = 1
          /\ sweep[p].results.alreadySynced = 0
    /\ now = 2
    /\ sessions[<<"1">>].syncedAt = 1

(***************************************************************************)
(* Properties of the generation handler: persistence (SpecGen).            *)
(***************************************************************************)
\* The object key a public URL names.
UrlKey(url) == Tail(url)

\* The object the URL names is in the bucket.
Stored(url) == UrlKey(url) \in DOMAIN bucket

\* Within request g the processed upload started only after the original
\* upload had succeeded, and the record write only after both had.
OrderKept(g) ==
    /\ "upload2" \in g.calls =>
          /\ "upload1" \in g.calls
          /\ Len(g.urls) >= 1
          /\ UrlKey(g.urls[1]) = <<"generations", g.timestamp, "original.jpg">>
          /\ Stored(g.urls[1])
    /\ "add" \in g.calls =>
          /\ "upload2" \in g.calls
          /\ Len(g.urls) = 2
          /\ UrlKey(g.urls[2]) = <<"generations", g.timestamp, "processed.jpg">>
          /\ Stored(g.urls[2])
    /\ g.added > 0 => "add" \in g.calls

\* Every generation record references an original and a processed object
\* that are in the bucket.
RecordsReferenceObjects ==
    \A k \in 1..Len(generations) :
        /\ Stored(generations[k].originalImageUrl)
        /\ Stored(generations[k].processedImageUrl)
        /\ UrlKey(generations[k].originalImageUrl) =
              <<"generations", generations[k].timestamp, "original.jpg">>
        /\ UrlKey(generations[k].processedImageUrl) =
              <<"generations", generations[k].timestamp, "processed.jpg">>

\* C16: within a request the original upload completes before the
\* processed upload starts and the record is written only after both
\* uploads succeeded; every generation record references two objects that
\* are in storage; and no step removes an object or a record already
\* written, whatever fails later.
ThmC16 ==
    [][/\ \A r \in GenProcs : OrderKept(gen'[r])
       /\ RecordsReferenceObjects'
       /\ DOMAIN bucket \subseteq DOMAIN bucket'
       /\ Len(generations') >= Len(generations)
       /\ SubSeq(generations', 1, Len(generations)) = generations]_vars

\* C16 witness: both uploads of a request were stored and its record write
\* failed: two objects exist without a record, and another request has its
\* record, which references its two stored objects.
WitC16 ==
    /\ gen[1].pc = "done" /\ gen[1].failed = "add"
    /\ Len(gen[1].urls) = 2 /\ Stored(gen[1].urls[1]) /\ Stored(gen[1].urls[2])
    /\ gen[1].added = 0
    /\ gen[2].pc = "done" /\ gen[2].added = 1
    /\ gen[2].timestamp # gen[1].timestamp
    /\ Len(generations) = 1
    /\ generations[1].timestamp = gen[2].timestamp
    /\ Cardinality(DOMAIN bucket) = 4

\* The inline data of the first part, in order, of candidates[0] that
\* carries inline data: a set with at most one element.
FirstInlineOfFirstCandidate(response) ==
    IF ~IsSome(response.candidates) \/ Val(response.candidates) = <<>> THEN {}
    ELSE LET c == Val(response.candidates)[1]
         IN  IF ~IsSome(c.content) \/ ~IsSome(Val(c.content).parts) THEN {}
             ELSE LET ps == Val(Val(c.content).parts)
                  IN  {Val(ps[i].inlineData) :
                         i \in {j \in 1..Len(ps) :
                                  /\ IsSome(ps[j].inlineData)
                                  /\ \A h \in 1..(j - 1) : ~IsSome(ps[h].inlineData)}}

\* C17: the image taken from a response is the first part, in order, of
\* candidates[0] that carries inline data: later image parts and image
\* parts of other candidates are ignored, and without such a part (no
\* candidates, no parts, no image part in the first candidate) the response
\* counts as having no image and nothing is returned as image or persisted.
ThmC17 ==
    [][\A r \in GenProcs :
          /\ IsSome(gen'[r].response) =>
                LET first == FirstInlineOfFirstCandidate(Val(gen'[r].response))
                IN  /\ first # {} =>
                          /\ gen'[r].pc = "upload1"
                          /\ IsSome(gen'[r].out)
                          /\ Val(gen'[r].out) \in first
                    /\ first = {} =>
                          /\ gen'[r].pc = "done"
                          /\ ~IsSome(gen'[r].out)
                          /\ "image" \notin DOMAIN Val(gen'[r].resp).body
                          /\ NoPersistence(gen'[r])
          /\ gen'[r].out # gen[r].out =>
                gen[r].pc \in {"model", "done"}
          /\ (Answered(gen'[r], 200) /\ "image" \in DOMAIN Val(gen'[r].resp).body) =>
                /\ IsSome(gen'[r].out)
                /\ Val(gen'[r].resp).body.image = Val(gen'[r].out).data
          /\ (gen[r].pc = "upload2" /\ gen'[r].pc = "add") =>
                bucket'[<<"generations", gen[r].timestamp, "processed.jpg">>].data
                    = Val(gen[r].out).data]_vars

\* C17 witness: one request took image Y from a response whose first
\* candidate holds Y and then X; another was answered without image after a
\* response whose first candidate holds only text and whose second holds X.
WitC17 ==
    /\ gen[1].pc = "upload1"
    /\ Val(gen[1].response).candidates = Some(<<Candidate(<<ImagePartY, ImagePartX>>)>>)
    /\ gen[1].out = ImagePartY.inlineData
    /\ gen[2].pc = "done"
    /\ IsSome(gen[2].response)
    /\ Val(gen[2].response).candidates =
          Some(<<Candidate(<<TextPart>>), Candidate(<<ImagePartX>>)>>)
    /\ Answered(gen[2], 200)
    /\ Val(gen[2].resp).body.error = "No image generated by model"

(***************************************************************************)
(* Properties of the sweep: which objects a record is built from.          *)
(***************************************************************************)
\* The session an object belongs to: the path segment between the first
\* and the second slash of a name whose first segment is `sessions`; none
\* for an object with no folder segment.
Owner(n) ==
    LET slashes == {i \in 1..Len(n) : n[i] = "/"}
    IN  IF Cardinality(slashes) < 2 THEN Undefined
        ELSE LET a == CHOOSE i \in slashes : \A j \in slashes : i <= j
                 b == CHOOSE i \in slashes \ {a} : \A j \in slashes \ {a} : i <= j
             IN  IF SubSeq(n, 1, a) = SessionsPrefix /\ b > a + 1
                 THEN Some(SubSeq(n, a + 1, b - 1))
                 ELSE Undefined

\* The listed objects of session id, in listing order.
Owned(id) == SelectSeq(files, LAMBDA n : Owner(n) = Some(id))

\* C18: every record the sweep writes belongs to an identifier that is the
\* folder segment of a listed object (an object directly under sessions/
\* creates none), and the record written for identifier X is the one built
\* from the listed objects under sessions/X/ alone: no object of another
\* session, one whose identifier X is a prefix of included, enters it.
ThmC18 ==
    [][\A id \in DOMAIN sessions' :
          (id \notin DOMAIN sessions \/ sessions'[id] # sessions[id]) =>
             /\ \E i \in 1..Len(files) : Owner(files[i]) = Some(id)
             /\ sessions'[id] = BuildSessionDoc(Owned(id), id, sessions'[id].syncedAt)]_vars

\* C18 witness: the listing holds sessions/1/original.jpg,
\* sessions/12/derendered.jpg and sessions/x.jpg; the records of 1 and of 12
\* were synthesized, each from its own file only, and no other record exists.
WitC18 ==
    /\ Len(files) = 3
    /\ files[1] = SessionsPrefix \o <<"1">> \o Slash \o OriginalJpg
    /\ files[2] = SessionsPrefix \o <<"1","2">> \o Slash \o DerenderedJpg
    /\ files[3] = SessionsPrefix \o <<"x">> \o DotJpg
    /\ Synthesized = {<<"1">>, <<"1","2">>}
    /\ DOMAIN sessions = Synthesized
    /\ IsSome(sessions[<<"1">>].originalImageUrl)
    /\ ~IsSome(sessions[<<"1">>].derenderedImageUrl)
    /\ ~IsSome(sessions[<<"1","2">>].originalImageUrl)
    /\ IsSome(sessions[<<"1","2">>].derenderedImageUrl)

(***************************************************************************)
(* The dry run followed by the sweep (SpecSeq).                            *)
(***************************************************************************)
\* The sweep invocation r was answered 200 with every read succeeding, and
\* it is the request served right after a dry run that was answered 200.
SweepRightAfterDryRun(r) ==
    /\ Answered(r, 200)
    /\ IsSome(dry.prev)
    /\ ~DryBusy
    /\ Val(dry.prev).status = 200
    /\ \A k \in 1..Len(r.results.details) :
          r.results.details[k].status = "failed" =>
              r.results.details[k].error # "read failed"

\* The identifiers for which the sweep invocation attempted a create: the
\* ones it reports created and the ones whose write failed.
CreateAttempts(r) ==
    {r.results.details[k].sessionId :
        k \in {j \in 1..Len(r.results.details) :
                  r.results.details[j].status \in {"created", "failed"}}}

\* C19: when a sweep is served right after a dry run, on the same listing
\* and document store, and its reads succeed, the identifiers the dry run
\* listed as missing are exactly those for which the sweep attempted a
\* create (created, or failed at the write), and the dry run's inFirestore
\* equals the sweep's alreadySynced.
ThmC19 ==
    SweepRightAfterDryRun(sweep[1]) =>
        LET report == Val(dry.prev).body
        IN  /\ {report.missing[k] : k \in 1..Len(report.missing)}
                  = CreateAttempts(sweep[1])
            /\ report.missingFromFirestore = Cardinality(CreateAttempts(sweep[1]))
            /\ report.inFirestore = sweep[1].results.alreadySynced
            /\ report.totalFolders = sweep[1].results.totalFolders

\* C19 witness: the dry run listed two identifiers as missing and counted
\* one in the store; the sweep served next created one of the two, failed
\* at the write of the other and found the third already synced.
WitC19 ==
    /\ SweepRightAfterDryRun(sweep[1])
    /\ Len(Val(dry.prev).body.missing) = 2
    /\ Val(dry.prev).body.inFirestore = 1
    /\ sweep[1].results.newlyCreated = 1
    /\ sweep[1].results.failed = 1
    /\ sweep[1].results.alreadySynced = 1

(***************************************************************************)
(* Properties of the generation handler: object keys (SpecGen).            *)
(***************************************************************************)
\* C20 as stated: a generation request never writes to a key another
\* request has written: every successful upload creates a key the bucket
\* did not hold, so that no stored artifact is overwritten.
OrigC20 ==
    [][\A r \in GenProcs :
          /\ (gen[r].pc = "upload1" /\ gen'[r].pc = "upload2") =>
                <<"generations", gen[r].timestamp, "original.jpg">> \notin DOMAIN bucket
          /\ (gen[r].pc = "upload2" /\ gen'[r].pc = "add") =>
                <<"generations", gen[r].timestamp, "processed.jpg">> \notin DOMAIN bucket]_vars

====
